---- MODULE Spec2Model ----
(***************************************************************************)
(* A model of KVStorageEngine (src/mongo/db/storage/kv/kv_storage_engine.cpp): *)
(* the directory of per-database catalog entries (_dbs, guarded by         *)
(* _dbsLock), dropDatabase with its two drop phases and their commit       *)
(* timestamp regimes, RemoveDBChange, getDatabaseCatalogEntry, and         *)
(* reconcileCatalogAndIdents.                                              *)
(***************************************************************************)
EXTENDS Integers, Sequences, FiniteSets, TLC

(***************************************************************************)
(* Bounds of the model.                                                    *)
(***************************************************************************)
\* The number of database catalog entries the injected factory can produce.
MaxHandles == 2

Threads == {"t1", "t2"}
NoThread == "none"

DbNames == {"d", "local"}

\* The namespaces the catalog may hold.
Namespaces == {"d.a", "d.tmp.mr.x", "d.system.drop.1.a"}

NullTimestamp == "null"
\* Commit timestamps an enclosing TimestampBlock may have set at entry.
EntryTimestamps == {NullTimestamp, "T1"}
\* Values LogicalClock::getClusterTime().asTimestamp() may return.
ClockTimestamps == {NullTimestamp, "T2"}
kAllowUnstableCheckpointsSentinel == "sentinel"
InitialDataTimestamps == {kAllowUnstableCheckpointsSentinel, "T0"}

nullptr == 0
Handles == 1..MaxHandles

(***************************************************************************)
(* NamespaceString: the parse of a namespace into its database name and    *)
(* the dot-separated components of its collection name, and the predicates *)
(* dropDatabase asks of it.                                                *)
(***************************************************************************)
NamespaceString(ns) ==
    CASE ns = "d.a" -> [db |-> "d", coll |-> <<"a">>]
      [] ns = "d.tmp.mr.x" -> [db |-> "d", coll |-> <<"tmp", "mr", "x">>]
      [] ns = "d.system.drop.1.a" -> [db |-> "d", coll |-> <<"system", "drop", "1", "a">>]
      [] ns = "d.system.indexes" -> [db |-> "d", coll |-> <<"system", "indexes">>]
      [] ns = "d.system.profile" -> [db |-> "d", coll |-> <<"system", "profile">>]
      [] ns = "local.x" -> [db |-> "local", coll |-> <<"x">>]
      [] ns = "db.c" -> [db |-> "db", coll |-> <<"c">>]
      [] ns = "db.e" -> [db |-> "db", coll |-> <<"e">>]

StartsWith(s, p) == Len(s) >= Len(p) /\ SubSeq(s, 1, Len(p)) = p

isDropPendingNamespace(ns) == StartsWith(NamespaceString(ns).coll, <<"system", "drop">>)

isReplicated(ns) ==
    /\ NamespaceString(ns).db # "local"
    /\ NamespaceString(ns).coll # <<"system", "profile">>

isSystemDotIndexes(ns) == NamespaceString(ns).coll = <<"system", "indexes">>

(***************************************************************************)
(* Status values.                                                          *)
(***************************************************************************)
StatusOK == [code |-> "OK", reason |-> ""]
Status(code, reason) == [code |-> code, reason |-> reason]
isOK(s) == s.code = "OK"

VARIABLES
    _dbs,                   \* DBMap: database name -> KVDatabaseCatalogEntryBase*
    _dbsLock,               \* the thread holding the directory mutex, or NoThread
    _initialDataTimestamp,  \* the value last passed to setInitialDataTimestamp
    heap,                   \* the entries the factory produced: name, collections, alive
    pc,                     \* each thread's position
    frame,                  \* each thread's locals of the running operation
    ru,                     \* each thread's recovery unit
    fatal,                  \* "running", or the fatal assertion that ended the process
    hist,                   \* each thread's record of what its running dropDatabase did
    engine,                 \* the idents the KVEngine holds
    catalog,                \* KVCatalog: namespace -> collection ident and index idents
    rc,                     \* reconcileCatalogAndIdents: its position, locals and result
    life                    \* construction, backup mode and shutdown: the engine's members

dirVars == <<_dbs, _dbsLock, _initialDataTimestamp, heap, pc, frame, ru, hist>>

recVars == <<engine, catalog, rc, life>>

vars == <<_dbs, _dbsLock, _initialDataTimestamp, heap, pc, frame, ru, fatal, hist,
          engine, catalog, rc, life>>

Null == NullTimestamp

BlankFrame ==
    [db |-> "", entry |-> nullptr, toDrop |-> <<>>, untimestampedDropsEnd |-> 1,
     it |-> 1, firstError |-> StatusOK, status |-> StatusOK, commitTs |-> Null,
     setCommitTs |-> FALSE, ret |-> StatusOK, result |-> nullptr,
     iter |-> <<>>, out |-> <<>>, listed |-> FALSE]

\* Line 49.
catalogInfo == "_mdb_catalog"

BlankReconcile ==
    [pc |-> "idle", entered |-> {}, engineIdents |-> {}, catalogIdents |-> {},
     it |-> <<>>, dropped |-> {}, ret |-> [status |-> "none"]]

\* KVPrefix::kNotPrefixed, lines 96 and 118.
kNotPrefixed == -1

\* The KVEngine the constructor is given, line 78.
KVEnginePtr == 1

\* The members before the constructor has run, and what the KVEngine has been
\* asked so far.
NewLife(forRepair) ==
    [phase |-> "new", forRepair |-> forRepair,
     _engine |-> KVEnginePtr, _catalog |-> FALSE, _catalogRecordStore |-> FALSE,
     _inBackupMode |-> FALSE, largestPrefix |-> kNotPrefixed,
     found |-> {}, catalogExists |-> FALSE, created |-> "no", repaired |-> FALSE,
     engineBackup |-> FALSE, engineShutdown |-> FALSE, engineDestroyed |-> FALSE,
     ret |-> [op |-> "none"]]

\* The members after a construction that found _mdb_catalog.
ConstructedLife ==
    [NewLife(FALSE) EXCEPT !.phase = "constructed", !._catalog = TRUE,
                           !._catalogRecordStore = TRUE, !.catalogExists = TRUE,
                           !.found = {catalogInfo}]

BlankRecoveryUnit == [commitTimestamp |-> Null, changes |-> <<>>, depth |-> 0]

(***************************************************************************)
(* The state after construction (lines 115-133): one directory entry per   *)
(* database that has a namespace in the catalog, each entry initialised    *)
(* with its database's collections.                                        *)
(***************************************************************************)
DbsOf(collections) == {NamespaceString(ns).db : ns \in collections}

Range(f) == {f[i] : i \in DOMAIN f}

RECURSIVE SetToSeq(_)
SetToSeq(S) ==
    IF S = {} THEN <<>>
    ELSE LET x == CHOOSE y \in S : TRUE IN <<x>> \o SetToSeq(S \ {x})

ConstructedDbs(collections) ==
    LET order == SetToSeq(DbsOf(collections))
    IN  [d \in DbsOf(collections) |-> CHOOSE i \in 1..Len(order) : order[i] = d]

ConstructedHeap(collections) ==
    LET order == SetToSeq(DbsOf(collections))
    IN  [h \in 1..Len(order) |->
            [name |-> order[h],
             colls |-> {ns \in collections : NamespaceString(ns).db = order[h]},
             alive |-> TRUE]]

Constructed(universe) ==
    \E collections \in SUBSET universe :
        /\ _dbs = ConstructedDbs(collections)
        /\ heap = ConstructedHeap(collections)
        /\ _dbsLock = NoThread
        /\ _initialDataTimestamp = kAllowUnstableCheckpointsSentinel
        /\ pc = [t \in Threads |-> "idle"]
        /\ frame = [t \in Threads |-> BlankFrame]
        /\ ru = [t \in Threads |-> BlankRecoveryUnit]
        /\ fatal = "running"
        /\ hist = [t \in Threads |-> <<>>]
        /\ engine = {catalogInfo}
        /\ catalog = <<>>
        /\ rc = BlankReconcile
        /\ life = ConstructedLife

Init == Constructed(Namespaces)

(***************************************************************************)
(* The database catalog entry (KVDatabaseCatalogEntryBase) as dropDatabase *)
(* uses it.                                                                *)
(***************************************************************************)
\* dropCollection(ns): the statuses it may return with the collections it leaves.
DropCollectionOutcomes(colls, ns) ==
    IF ns \notin colls
    THEN {[status |-> Status("NamespaceNotFound", ns), colls |-> colls]}
    ELSE {[status |-> StatusOK, colls |-> colls \ {ns}],
          [status |-> Status("OperationFailed", ns), colls |-> colls]}

\* The orders in which a set can be listed.
Listings(S) ==
    {f \in [1..Cardinality(S) -> S] : \A i, j \in 1..Cardinality(S) : f[i] = f[j] => i = j}

(***************************************************************************)
(* std::partition (lines 302-305): the namespaces that are not drop-pending *)
(* come first, in an order the library chooses; untimestampedDropsEnd is   *)
(* the position of the first drop-pending namespace.                       *)
(***************************************************************************)
Partition_none(colls) ==
    {[toDrop |-> a, untimestampedDropsEnd |-> Len(a) + 1] : a \in Listings(colls)}

Partition(colls) ==
    LET untimestamped == {ns \in colls : ~isDropPendingNamespace(ns)}
        timestamped == colls \ untimestamped
    IN  {[toDrop |-> a \o b, untimestampedDropsEnd |-> Len(a) + 1] :
            a \in Listings(untimestamped), b \in Listings(timestamped)}

(***************************************************************************)
(* The recovery unit and WriteUnitOfWork: a unit of work opened inside     *)
(* another one commits with the outermost; the outermost commit runs every *)
(* registered change's commit(), an abort runs their rollback() in reverse.*)
(***************************************************************************)
\* RemoveDBChange::commit (lines 58-60) over the registered changes.
CommitChanges(changes, h) ==
    [e \in DOMAIN h |->
        IF \E i \in 1..Len(changes) : changes[i].entry = e
        THEN [h[e] EXCEPT !.alive = FALSE]
        ELSE h[e]]

\* The changes delete an entry that was already deleted.
DeletesTwice(changes, h) ==
    \/ \E i \in 1..Len(changes) : ~h[changes[i].entry].alive
    \/ \E i, j \in 1..Len(changes) : i # j /\ changes[i].entry = changes[j].entry

\* RemoveDBChange::rollback (lines 62-65) over the registered changes, last first.
RECURSIVE RollbackChanges_insert(_, _)
RollbackChanges_insert(changes, dbs) ==
    IF changes = <<>> THEN dbs
    ELSE LET c == changes[Len(changes)]
         IN  RollbackChanges_insert(SubSeq(changes, 1, Len(changes) - 1),
                                    dbs @@ (c.db :> c.entry))

RECURSIVE RollbackChanges(_, _)
RollbackChanges(changes, dbs) ==
    IF changes = <<>> THEN dbs
    ELSE LET c == changes[Len(changes)]
         IN  RollbackChanges(SubSeq(changes, 1, Len(changes) - 1),
                             (c.db :> c.entry) @@ dbs)

Running == fatal = "running"

\* _dbs.find(db), line 289: the directory after the lookup.
DirectoryAfterSubscript(dbs, db) ==
    IF db \in DOMAIN dbs THEN dbs ELSE (db :> nullptr) @@ dbs

DirectoryAfterFind(dbs, db) == dbs

(***************************************************************************)
(* dropDatabase, lines 285-293: the lookup under the directory mutex.  The *)
(* caller may have set a commit timestamp (a TimestampBlock) and may have  *)
(* opened a write unit of work around the call.                            *)
(***************************************************************************)
dropDatabase(t, db, ts, wrapped) ==
    /\ Running
    /\ UNCHANGED recVars
    /\ pc[t] = "idle"
    /\ _dbsLock = NoThread
    /\ ru' = [ru EXCEPT ![t] = [commitTimestamp |-> ts, changes |-> <<>>,
                                depth |-> IF wrapped THEN 1 ELSE 0]]
    /\ hist' = [hist EXCEPT ![t] = <<[ev |-> "enter", db |-> db, ts |-> ts]>>]
    /\ IF db \notin DOMAIN _dbs
       THEN /\ frame' = [frame EXCEPT ![t] =
                            [BlankFrame EXCEPT !.db = db,
                                !.ret = Status("NamespaceNotFound", "db not found to drop")]]
            /\ pc' = [pc EXCEPT ![t] = "dd_return"]
       ELSE /\ frame' = [frame EXCEPT ![t] =
                            [BlankFrame EXCEPT !.db = db, !.entry = _dbs[db]]]
            /\ pc' = [pc EXCEPT ![t] = "dd_list"]
    /\ _dbs' = DirectoryAfterFind(_dbs, db)
    /\ UNCHANGED <<_dbsLock, _initialDataTimestamp, heap, fatal>>

(***************************************************************************)
(* The commit timestamp regimes of the two phases.                         *)
(***************************************************************************)
\* Lines 351-354: the commit timestamp Phase A runs under.
SuppressedCommitTimestamp_kept(commitTs) == commitTs

SuppressedCommitTimestamp(commitTs) == Null

\* The guard addCommitTimestamp, lines 357-361, on Phase A's exit.
addCommitTimestamp_dismissed(commitTs, current) == current

addCommitTimestamp(commitTs, current) ==
    IF commitTs # Null THEN commitTs ELSE current

\* Line 410.
SetCommitTs_always(existingCommitTs, chosenCommitTs) == chosenCommitTs # Null

SetCommitTs(existingCommitTs, chosenCommitTs) ==
    existingCommitTs = Null /\ chosenCommitTs # Null

\* Lines 411-413: the commit timestamp Phase B runs under.
TimestampedCommitTimestamp(existingCommitTs, chosenCommitTs) ==
    IF SetCommitTs(existingCommitTs, chosenCommitTs) THEN chosenCommitTs
    ELSE existingCommitTs

\* The guard removeCommitTimestamp, lines 416-420, on Phase B's exit.
removeCommitTimestamp(setCommitTs, current) ==
    IF setCommitTs THEN Null ELSE current

(***************************************************************************)
(* Lines 295-305 and 351-364: list the entry's namespaces, partition them, *)
(* and enter _dropCollectionsNoTimestamp: save and clear the commit        *)
(* timestamp, open the untimestamped write unit of work.                   *)
(***************************************************************************)
dropDatabase_partition(t) ==
    /\ Running
    /\ UNCHANGED recVars
    /\ pc[t] = "dd_list"
    /\ \E p \in Partition(heap[frame[t].entry].colls) :
        /\ frame' = [frame EXCEPT ![t].toDrop = p.toDrop,
                                  ![t].untimestampedDropsEnd = p.untimestampedDropsEnd,
                                  ![t].it = 1,
                                  ![t].commitTs = ru[t].commitTimestamp,
                                  ![t].status = StatusOK]
        /\ hist' = [hist EXCEPT ![t] =
                        @ \o <<[ev |-> "list", toDrop |-> p.toDrop,
                                end |-> p.untimestampedDropsEnd],
                               [ev |-> "begin", phase |-> "A"]>>]
    /\ ru' = [ru EXCEPT ![t].commitTimestamp = SuppressedCommitTimestamp(@),
                        ![t].depth = @ + 1]
    /\ pc' = [pc EXCEPT ![t] = "dd_A_loop"]
    /\ UNCHANGED <<_dbs, _dbsLock, _initialDataTimestamp, heap, fatal>>

\* The Phase A assertion's predicate, lines 378-379.
UntimestampedDropAllowed_unreplicated(ns) == ~isReplicated(ns)

UntimestampedDropAllowed(ns) ==
    \/ ~isReplicated(ns)
    \/ StartsWith(NamespaceString(ns).coll, <<"tmp", "mr">>)
    \/ isSystemDotIndexes(ns)

(***************************************************************************)
(* _dropCollectionsNoTimestamp, lines 365-388: one iteration of the loop.  *)
(***************************************************************************)
dropCollectionsNoTimestamp_drop(t) ==
    /\ Running
    /\ UNCHANGED recVars
    /\ pc[t] = "dd_A_loop"
    /\ frame[t].it # frame[t].untimestampedDropsEnd
    /\ LET coll == frame[t].toDrop[frame[t].it]
           dbce == frame[t].entry
       IN  IF /\ _initialDataTimestamp # kAllowUnstableCheckpointsSentinel
              /\ ~UntimestampedDropAllowed(coll)
           THEN /\ fatal' = "invariant_378"
                /\ pc' = [pc EXCEPT ![t] = "dd_fatal"]
                /\ UNCHANGED <<heap, frame, hist>>
           ELSE \E o \in DropCollectionOutcomes(heap[dbce].colls, coll) :
                /\ heap' = [heap EXCEPT ![dbce].colls = o.colls]
                /\ frame' = [frame EXCEPT ![t].it = @ + 1,
                                ![t].status = IF ~isOK(o.status) /\ isOK(@)
                                              THEN o.status ELSE @]
                /\ hist' = [hist EXCEPT ![t] =
                                Append(@, [ev |-> "dropCollection", phase |-> "A",
                                           ns |-> coll, ts |-> ru[t].commitTimestamp,
                                           result |-> o.status])]
                /\ UNCHANGED <<fatal, pc>>
    /\ UNCHANGED <<_dbs, _dbsLock, _initialDataTimestamp, ru>>

(***************************************************************************)
(* Lines 390-391 with the guard of 357-361, line 317, and the entry of     *)
(* _dropCollectionsWithTimestamp, lines 405-429: Phase A's unit of work    *)
(* commits, the saved commit timestamp is restored, and Phase B chooses    *)
(* its commit timestamp and opens the timestamped write unit of work.      *)
(***************************************************************************)
dropCollectionsNoTimestamp_commit(t, chosenCommitTs) ==
    /\ Running
    /\ UNCHANGED recVars
    /\ pc[t] = "dd_A_loop"
    /\ frame[t].it = frame[t].untimestampedDropsEnd
    /\ LET toplevel == ru[t].depth = 1
            existingCommitTs == addCommitTimestamp(frame[t].commitTs, ru[t].commitTimestamp)
            setCommitTs == SetCommitTs(existingCommitTs, chosenCommitTs)
        IN  /\ IF toplevel /\ DeletesTwice(ru[t].changes, heap)
               THEN \E crash \in BOOLEAN :
                        fatal' = IF crash THEN "double_delete" ELSE fatal
               ELSE UNCHANGED fatal
            /\ heap' = IF toplevel THEN CommitChanges(ru[t].changes, heap) ELSE heap
            /\ ru' = [ru EXCEPT ![t].changes = IF toplevel THEN <<>> ELSE @,
                                ![t].commitTimestamp =
                                    TimestampedCommitTimestamp(existingCommitTs, chosenCommitTs),
                                ![t].depth = @]
            /\ frame' = [frame EXCEPT ![t].firstError = frame[t].status,
                                      ![t].status = StatusOK,
                                      ![t].setCommitTs = setCommitTs]
            /\ hist' = [hist EXCEPT ![t] =
                            @ \o <<[ev |-> "commit", phase |-> "A",
                                    ts |-> ru[t].commitTimestamp, toplevel |-> toplevel],
                                   [ev |-> "exit", phase |-> "A", ts |-> existingCommitTs],
                                   [ev |-> "begin", phase |-> "B",
                                    existing |-> existingCommitTs,
                                    chosen |-> chosenCommitTs]>>]
    /\ pc' = [pc EXCEPT ![t] = "dd_B_loop"]
    /\ UNCHANGED <<_dbs, _dbsLock, _initialDataTimestamp>>

(***************************************************************************)
(* _dropCollectionsWithTimestamp, lines 430-438: one iteration of the loop.*)
(***************************************************************************)
dropCollectionsWithTimestamp_drop(t) ==
    /\ Running
    /\ UNCHANGED recVars
    /\ pc[t] = "dd_B_loop"
    /\ frame[t].it # Len(frame[t].toDrop) + 1
    /\ LET coll == frame[t].toDrop[frame[t].it]
           dbce == frame[t].entry
       IN  \E o \in DropCollectionOutcomes(heap[dbce].colls, coll) :
            /\ heap' = [heap EXCEPT ![dbce].colls = o.colls]
            /\ frame' = [frame EXCEPT ![t].it = @ + 1,
                            ![t].status = IF ~isOK(o.status) /\ isOK(@)
                                          THEN o.status ELSE @]
            /\ hist' = [hist EXCEPT ![t] =
                            Append(@, [ev |-> "dropCollection", phase |-> "B",
                                       ns |-> coll, ts |-> ru[t].commitTimestamp,
                                       result |-> o.status])]
    /\ UNCHANGED <<_dbs, _dbsLock, _initialDataTimestamp, pc, ru, fatal>>

(***************************************************************************)
(* Lines 440-442: the entry must report no namespace any more.             *)
(***************************************************************************)
dropCollectionsWithTimestamp_check(t) ==
    /\ Running
    /\ UNCHANGED recVars
    /\ pc[t] = "dd_B_loop"
    /\ frame[t].it = Len(frame[t].toDrop) + 1
    /\ LET remaining == heap[frame[t].entry].colls
       IN  /\ frame' = [frame EXCEPT ![t].toDrop = SetToSeq(remaining),
                                     ![t].it = 1]
           /\ IF remaining # {}
              THEN /\ fatal' = "invariant_442"
                   /\ pc' = [pc EXCEPT ![t] = "dd_fatal"]
              ELSE /\ pc' = [pc EXCEPT ![t] = "dd_B_remove"]
                   /\ UNCHANGED fatal
    /\ UNCHANGED <<_dbs, _dbsLock, _initialDataTimestamp, heap, ru, hist>>

\* _dbs.erase(name), line 447.
Erase_kept(dbs, name) == dbs

Erase(dbs, name) == [d \in DOMAIN dbs \ {name} |-> dbs[d]]

(***************************************************************************)
(* Lines 444-448: under the directory mutex, register the RemoveDBChange   *)
(* and erase the entry from the directory.                                 *)
(***************************************************************************)
dropCollectionsWithTimestamp_remove(t) ==
    /\ Running
    /\ UNCHANGED recVars
    /\ pc[t] = "dd_B_remove"
    /\ _dbsLock = NoThread
    /\ LET dbce == frame[t].entry
           name == heap[dbce].name
       IN  /\ ru' = [ru EXCEPT ![t].changes = Append(@, [db |-> name, entry |-> dbce])]
           /\ _dbs' = Erase(_dbs, name)
           /\ hist' = [hist EXCEPT ![t] =
                           Append(@, [ev |-> "remove", db |-> name, entry |-> dbce])]
    /\ pc' = [pc EXCEPT ![t] = "dd_B_commit"]
    /\ UNCHANGED <<_dbsLock, _initialDataTimestamp, heap, frame, fatal>>

(***************************************************************************)
(* Lines 450-451 with the guard of 416-420, and lines 329-333: Phase B's   *)
(* unit of work commits, a commit timestamp this call set is cleared, and  *)
(* dropDatabase returns the first error.                                   *)
(***************************************************************************)
dropCollectionsWithTimestamp_commit(t) ==
    /\ Running
    /\ UNCHANGED recVars
    /\ pc[t] = "dd_B_commit"
    /\ LET toplevel == ru[t].depth = 1
       IN  /\ IF toplevel /\ DeletesTwice(ru[t].changes, heap)
              THEN \E crash \in BOOLEAN :
                       fatal' = IF crash THEN "double_delete" ELSE fatal
              ELSE UNCHANGED fatal
           /\ heap' = IF toplevel THEN CommitChanges(ru[t].changes, heap) ELSE heap
           /\ ru' = [ru EXCEPT ![t].changes = IF toplevel THEN <<>> ELSE @,
                               ![t].commitTimestamp =
                                   removeCommitTimestamp(frame[t].setCommitTs, @),
                               ![t].depth = @ - 1]
           /\ frame' = [frame EXCEPT ![t].ret =
                           IF isOK(frame[t].firstError) THEN frame[t].status
                           ELSE frame[t].firstError]
           /\ hist' = [hist EXCEPT ![t] =
                           Append(@, [ev |-> "commit", phase |-> "B",
                                      ts |-> ru[t].commitTimestamp,
                                      toplevel |-> toplevel])]
    /\ pc' = [pc EXCEPT ![t] = "dd_return"]
    /\ UNCHANGED <<_dbs, _dbsLock, _initialDataTimestamp>>

(***************************************************************************)
(* The caller after dropDatabase returned: a write unit of work it opened  *)
(* around the call commits or aborts; without one it just moves on.  The   *)
(* enclosing TimestampBlock ends with the operation.                       *)
(***************************************************************************)
commitUnitOfWork(t) ==
    /\ Running
    /\ UNCHANGED recVars
    /\ pc[t] = "dd_return"
    /\ ru[t].depth = 1
    /\ IF DeletesTwice(ru[t].changes, heap)
       THEN \E crash \in BOOLEAN : fatal' = IF crash THEN "double_delete" ELSE fatal
       ELSE UNCHANGED fatal
    /\ heap' = CommitChanges(ru[t].changes, heap)
    /\ ru' = [ru EXCEPT ![t] = BlankRecoveryUnit]
    /\ pc' = [pc EXCEPT ![t] = "idle"]
    /\ frame' = [frame EXCEPT ![t] = BlankFrame]
    /\ hist' = [hist EXCEPT ![t] = <<>>]
    /\ UNCHANGED <<_dbs, _dbsLock, _initialDataTimestamp>>

abortUnitOfWork(t) ==
    /\ Running
    /\ UNCHANGED recVars
    /\ pc[t] = "dd_return"
    /\ ru[t].depth = 1
    /\ ru[t].changes # <<>> => _dbsLock = NoThread
    /\ _dbs' = RollbackChanges(ru[t].changes, _dbs)
    /\ ru' = [ru EXCEPT ![t] = BlankRecoveryUnit]
    /\ pc' = [pc EXCEPT ![t] = "idle"]
    /\ frame' = [frame EXCEPT ![t] = BlankFrame]
    /\ hist' = [hist EXCEPT ![t] = <<>>]
    /\ UNCHANGED <<_dbsLock, _initialDataTimestamp, heap, fatal>>

returnToCaller(t) ==
    /\ Running
    /\ UNCHANGED recVars
    /\ pc[t] = "dd_return"
    /\ ru[t].depth = 0
    /\ ru' = [ru EXCEPT ![t] = BlankRecoveryUnit]
    /\ pc' = [pc EXCEPT ![t] = "idle"]
    /\ frame' = [frame EXCEPT ![t] = BlankFrame]
    /\ hist' = [hist EXCEPT ![t] = <<>>]
    /\ UNCHANGED <<_dbs, _dbsLock, _initialDataTimestamp, heap, fatal>>

(***************************************************************************)
(* getDatabaseCatalogEntry, lines 269-278.  On a hit the entry is returned *)
(* under the mutex; on a miss operator[] has inserted a null slot and the  *)
(* factory is called with the mutex held.                                  *)
(***************************************************************************)
getDatabaseCatalogEntry(t, dbName) ==
    /\ Running
    /\ UNCHANGED recVars
    /\ pc[t] = "idle"
    /\ _dbsLock = NoThread
    /\ IF dbName \in DOMAIN _dbs
       THEN /\ frame' = [frame EXCEPT ![t] =
                            [BlankFrame EXCEPT !.db = dbName, !.result = _dbs[dbName]]]
            /\ UNCHANGED <<_dbs, _dbsLock, pc>>
       ELSE /\ Len(heap) < MaxHandles
            /\ _dbs' = (dbName :> nullptr) @@ _dbs
            /\ _dbsLock' = t
            /\ frame' = [frame EXCEPT ![t] = [BlankFrame EXCEPT !.db = dbName]]
            /\ pc' = [pc EXCEPT ![t] = "get_factory"]
    /\ UNCHANGED <<_initialDataTimestamp, heap, ru, fatal, hist>>

\* Line 275: the factory's entry is stored in the slot; line 277 returns it.
getDatabaseCatalogEntry_factory(t) ==
    /\ Running
    /\ UNCHANGED recVars
    /\ pc[t] = "get_factory"
    /\ LET db == Len(heap) + 1
       IN  /\ heap' = Append(heap, [name |-> frame[t].db, colls |-> {}, alive |-> TRUE])
           /\ _dbs' = [_dbs EXCEPT ![frame[t].db] = db]
           /\ frame' = [frame EXCEPT ![t].result = db]
    /\ _dbsLock' = NoThread
    /\ pc' = [pc EXCEPT ![t] = "idle"]
    /\ UNCHANGED <<_initialDataTimestamp, ru, fatal, hist>>

\* setInitialDataTimestamp, lines 504-507.
setInitialDataTimestamp(initialDataTimestamp) ==
    /\ Running
    /\ UNCHANGED recVars
    /\ _initialDataTimestamp # initialDataTimestamp
    /\ _initialDataTimestamp' = initialDataTimestamp
    /\ UNCHANGED <<_dbs, _dbsLock, heap, pc, frame, ru, fatal, hist>>

(***************************************************************************)
(* A thread calls into an entry that RemoveDBChange::commit has deleted:   *)
(* the call may go on over the freed memory (the actions above), or the    *)
(* process may die here.                                                   *)
(***************************************************************************)
UsesEntry(t) ==
    \/ pc[t] \in {"dd_list", "dd_B_remove"}
    \/ pc[t] = "dd_A_loop" /\ frame[t].it # frame[t].untimestampedDropsEnd
    \/ pc[t] = "dd_B_loop"

useAfterFree(t) ==
    /\ Running
    /\ UNCHANGED recVars
    /\ UsesEntry(t)
    /\ ~heap[frame[t].entry].alive
    /\ fatal' = "use_after_free"
    /\ UNCHANGED <<_dbs, _dbsLock, _initialDataTimestamp, heap, pc, frame, ru, hist>>

(***************************************************************************)
(* Other clients of a database catalog entry: while a dropDatabase runs on *)
(* the entry, a thread that holds it creates or drops a collection through *)
(* it.                                                                     *)
(***************************************************************************)
DropRunsOn(h) ==
    \E t \in Threads :
        pc[t] \in {"dd_list", "dd_A_loop", "dd_B_loop"} /\ frame[t].entry = h

entry_createCollection(h, ns) ==
    /\ Running
    /\ UNCHANGED recVars
    /\ h \in DOMAIN heap
    /\ heap[h].alive
    /\ DropRunsOn(h)
    /\ NamespaceString(ns).db = heap[h].name
    /\ ns \notin heap[h].colls
    /\ heap' = [heap EXCEPT ![h].colls = @ \cup {ns}]
    /\ UNCHANGED <<_dbs, _dbsLock, _initialDataTimestamp, pc, frame, ru, fatal, hist>>

entry_dropCollection(h, ns) ==
    /\ Running
    /\ UNCHANGED recVars
    /\ h \in DOMAIN heap
    /\ heap[h].alive
    /\ DropRunsOn(h)
    /\ ns \in heap[h].colls
    /\ heap' = [heap EXCEPT ![h].colls = @ \ {ns}]
    /\ UNCHANGED <<_dbs, _dbsLock, _initialDataTimestamp, pc, frame, ru, fatal, hist>>

(***************************************************************************)
(* listDatabases, lines 260-267: under the directory mutex, walk the       *)
(* directory in name order and ask each entry whether it is empty.         *)
(***************************************************************************)
\* Every database name of the model, in the order std::map iterates them.
DbOrder == <<"d", "db", "local">>

\* KVDatabaseCatalogEntryBase::isEmpty.
isEmpty(entry) == entry.colls = {}

\* Lines 263-265: out after the loop has met the entry of a name.
OutAfter_every(out, name, entry) == Append(out, name)

OutAfter(out, name, entry) ==
    IF isEmpty(entry) THEN out ELSE Append(out, name)

listDatabases(t) ==
    /\ Running
    /\ UNCHANGED recVars
    /\ life.phase = "constructed"
    /\ pc[t] = "idle"
    /\ _dbsLock = NoThread
    /\ _dbsLock' = t
    /\ frame' = [frame EXCEPT ![t] =
                    [BlankFrame EXCEPT !.iter = SelectSeq(DbOrder, LAMBDA d : d \in DOMAIN _dbs)]]
    /\ pc' = [pc EXCEPT ![t] = "ld_loop"]
    /\ UNCHANGED <<_dbs, _initialDataTimestamp, heap, ru, fatal, hist>>

\* Lines 262-266: one turn of the loop, or its end and the release of the mutex.
listDatabases_isEmpty(t) ==
    /\ Running
    /\ UNCHANGED recVars
    /\ pc[t] = "ld_loop"
    /\ IF frame[t].iter = <<>>
       THEN /\ _dbsLock' = NoThread
            /\ frame' = [frame EXCEPT ![t].listed = TRUE]
            /\ pc' = [pc EXCEPT ![t] = "idle"]
       ELSE /\ frame' = [frame EXCEPT
                    ![t].iter = Tail(@),
                    ![t].out = OutAfter(@, Head(frame[t].iter),
                                        heap[_dbs[Head(frame[t].iter)]])]
            /\ UNCHANGED <<_dbsLock, pc>>
    /\ UNCHANGED <<_dbs, _initialDataTimestamp, heap, ru, fatal, hist>>

(***************************************************************************)
(* The operations of the storage engine run by the threads of T, on the    *)
(* database names, entry commit timestamps and cluster times given.        *)
(***************************************************************************)
Operations(T, names, entryTimestamps, clusterTimes) ==
    \/ \E t \in T, db \in names, ts \in entryTimestamps, wrapped \in BOOLEAN :
           dropDatabase(t, db, ts, wrapped)
    \/ \E t \in T : dropDatabase_partition(t)
    \/ \E t \in T : dropCollectionsNoTimestamp_drop(t)
    \/ \E t \in T, chosenCommitTs \in clusterTimes :
           dropCollectionsNoTimestamp_commit(t, chosenCommitTs)
    \/ \E t \in T : dropCollectionsWithTimestamp_drop(t)
    \/ \E t \in T : dropCollectionsWithTimestamp_check(t)
    \/ \E t \in T : dropCollectionsWithTimestamp_remove(t)
    \/ \E t \in T : dropCollectionsWithTimestamp_commit(t)
    \/ \E t \in T : commitUnitOfWork(t)
    \/ \E t \in T : abortUnitOfWork(t)
    \/ \E t \in T : returnToCaller(t)
    \/ \E t \in T, db \in names : getDatabaseCatalogEntry(t, db)
    \/ \E t \in T : getDatabaseCatalogEntry_factory(t)

(***************************************************************************)
(* Spec: one thread runs the engine's operations on every input, while     *)
(* other clients create and drop collections through the entries.          *)
(***************************************************************************)
Next ==
    \/ Operations({"t1"}, DbNames, EntryTimestamps, ClockTimestamps)
    \/ \E ts \in InitialDataTimestamps : setInitialDataTimestamp(ts)
    \/ \E h \in Handles, ns \in Namespaces : entry_createCollection(h, ns)
    \/ \E h \in Handles, ns \in Namespaces : entry_dropCollection(h, ns)
    \/ listDatabases("t1")
    \/ listDatabases_isEmpty("t1")

Spec == Init /\ [][Next]_vars

(***************************************************************************)
(* SpecThreads: two threads run the operations concurrently on one         *)
(* database name.                                                          *)
(***************************************************************************)
ThreadsNamespaces == {"d.tmp.mr.x", "d.system.drop.1.a"}

InitThreads == Constructed(ThreadsNamespaces)

NextThreads ==
    \/ Operations(Threads, {"d"}, {Null}, {"T2"})
    \/ \E t \in Threads : useAfterFree(t)

SpecThreads == InitThreads /\ [][NextThreads]_vars

(***************************************************************************)
(* SpecPhaseA: one thread drops databases whose namespaces are of every    *)
(* kind the Phase A assertion tells apart, while the initial data          *)
(* timestamp is set and reset.                                             *)
(***************************************************************************)
PhaseANamespaces ==
    {"d.a", "d.system.indexes", "d.system.profile", "d.system.drop.1.a", "local.x"}

InitPhaseA == Constructed(PhaseANamespaces)

NextPhaseA ==
    \/ Operations({"t1"}, DbNames, {Null}, {"T2"})
    \/ \E ts \in InitialDataTimestamps : setInitialDataTimestamp(ts)

SpecPhaseA == InitPhaseA /\ [][NextPhaseA]_vars

(***************************************************************************)
(* reconcileCatalogAndIdents (lines 152-233).  Idents are the engine's      *)
(* table names; the KVCatalog maps each namespace to its collection's ident *)
(* and, per index of its metadata, the index's name and ident.             *)
(***************************************************************************)
\* Every ident of the model, in the order std::set<std::string> iterates them.
Idents ==
    <<"_mdb_catalog", "collection-1", "collection-2", "collection-6",
      "index-3", "index-4", "index-5", "index-7", "sizeStorer">>

\* KVCatalog::isUserDataIdent: the ident names a collection's or an index's table.
isUserDataIdent(ident) ==
    ident \in {"collection-1", "collection-2", "collection-6",
               "index-3", "index-4", "index-5", "index-7"}

\* The namespaces a catalog may hold, in the order getAllCollections lists them.
CatalogNamespaces == <<"db.c", "db.e", "local.x">>

\* The metadata a catalog may record for a namespace.
MetaDatas(ns) ==
    IF ns = "db.c"
    THEN {[ident |-> "collection-1", indexes |-> ix] :
            ix \in {<<>>,
                    <<[name |-> "i", ident |-> "index-3"]>>,
                    <<[name |-> "j", ident |-> "index-4"]>>,
                    <<[name |-> "i", ident |-> "index-3"],
                      [name |-> "j", ident |-> "index-4"]>>}}
    ELSE IF ns = "db.e"
    THEN {[ident |-> "collection-2", indexes |-> ix] :
            ix \in {<<>>, <<[name |-> "i", ident |-> "index-5"]>>}}
    ELSE {[ident |-> "collection-6", indexes |-> <<>>]}

Catalogs ==
    UNION {{cat \in [S -> UNION {MetaDatas(ns) : ns \in S}] :
                \A ns \in S : cat[ns] \in MetaDatas(ns)} :
           S \in SUBSET Range(CatalogNamespaces)}

\* _catalog->getAllIdents, line 175.
catalog_getAllIdents(cat) ==
    UNION {{cat[ns].ident} \cup {cat[ns].indexes[i].ident : i \in DOMAIN cat[ns].indexes} :
           ns \in DOMAIN cat}

\* _catalog->getAllCollections, line 202.
getAllCollections(cat) ==
    SelectSeq(CatalogNamespaces, LAMBDA ns : ns \in DOMAIN cat)

\* _catalog->getCollectionIdent, line 204.
getCollectionIdent(cat, coll) == cat[coll].ident

\* _catalog->getMetaData, line 217.
getMetaData(cat, coll) == cat[coll]

\* _catalog->getIndexIdent, line 220.
getIndexIdent(cat, coll, indexName) ==
    LET indexes == cat[coll].indexes
    IN  indexes[CHOOSE i \in DOMAIN indexes : indexes[i].name = indexName].ident

\* A std::set<std::string> as the sequence its iteration yields.
SortedIdents(S) == SelectSeq(Idents, LAMBDA ident : ident \in S)

\* Lines 182-188: the loop drops an ident unless the catalog knows it or it is
\* not user data.
Unknown_anyUserData(it, catalogIdents) == isUserDataIdent(it)

Unknown_anyIdent(it, catalogIdents) == it \notin catalogIdents

Unknown(it, catalogIdents) ==
    /\ it \notin catalogIdents
    /\ isUserDataIdent(it)

\* Lines 203-205: the collections whose ident the gathered set does not hold,
\* in the order the loop meets them.
MissingCollections_none(collections, cat, engineIdents) == <<>>

MissingCollections(collections, cat, engineIdents) ==
    SelectSeq(collections, LAMBDA coll : getCollectionIdent(cat, coll) \notin engineIdents)

\* Lines 218-229: the pairs one collection adds to ret.
RECURSIVE RebuildOf_everyIndex(_, _, _, _)
RebuildOf_everyIndex(coll, indexes, cat, engineIdents) ==
    IF indexes = <<>> THEN <<>>
    ELSE <<<<coll, Head(indexes).name>>>>
            \o RebuildOf_everyIndex(coll, Tail(indexes), cat, engineIdents)

RECURSIVE RebuildOf(_, _, _, _)
RebuildOf(coll, indexes, cat, engineIdents) ==
    IF indexes = <<>> THEN <<>>
    ELSE LET indexName == Head(indexes).name
             indexIdent == getIndexIdent(cat, coll, indexName)
             rest == RebuildOf(coll, Tail(indexes), cat, engineIdents)
         IN  IF indexIdent \in engineIdents
             THEN rest
             ELSE <<<<coll, indexName>>>> \o rest

\* Lines 215-232: ret.
RECURSIVE Rebuild(_, _, _)
Rebuild(collections, cat, engineIdents) ==
    IF collections = <<>> THEN <<>>
    ELSE LET coll == Head(collections)
         IN  RebuildOf(coll, getMetaData(cat, coll).indexes, cat, engineIdents)
                \o Rebuild(Tail(collections), cat, engineIdents)

\* Lines 166-177: gather the engine's idents, without _mdb_catalog, and the
\* catalog's.
reconcileCatalogAndIdents ==
    /\ Running
    /\ life.phase = "constructed"
    /\ UNCHANGED life
    /\ rc.pc = "idle"
    /\ rc' = [rc EXCEPT !.pc = "drop",
                        !.entered = engine,
                        !.engineIdents = engine \ {catalogInfo},
                        !.it = SortedIdents(engine \ {catalogInfo}),
                        !.catalogIdents = catalog_getAllIdents(catalog)]
    /\ UNCHANGED <<engine, catalog, fatal>>
    /\ UNCHANGED dirVars

\* Lines 181-195: one turn of the loop over the gathered idents.  dropIdent
\* removes the ident from the engine or fails, and a failure is fatal
\* (fassert 40591).
reconcile_dropIdent ==
    /\ Running
    /\ life.phase = "constructed"
    /\ UNCHANGED life
    /\ rc.pc = "drop"
    /\ rc.it # <<>>
    /\ LET toRemove == Head(rc.it)
       IN  IF ~Unknown(toRemove, rc.catalogIdents)
           THEN /\ rc' = [rc EXCEPT !.it = Tail(@)]
                /\ UNCHANGED <<engine, fatal>>
           ELSE \/ /\ engine' = engine \ {toRemove}
                   /\ rc' = [rc EXCEPT !.it = Tail(@), !.dropped = @ \cup {toRemove}]
                   /\ UNCHANGED fatal
                \/ /\ fatal' = "fassert_40591"
                   /\ rc' = [rc EXCEPT !.pc = "fatal"]
                   /\ UNCHANGED engine
    /\ UNCHANGED catalog
    /\ UNCHANGED dirVars

\* Lines 201-211: every collection's ident must be among the gathered idents.
reconcile_checkCollections ==
    /\ Running
    /\ life.phase = "constructed"
    /\ UNCHANGED life
    /\ rc.pc = "drop"
    /\ rc.it = <<>>
    /\ LET collections == getAllCollections(catalog)
           missing == MissingCollections(collections, catalog, rc.engineIdents)
       IN  IF missing # <<>>
           THEN rc' = [rc EXCEPT
                    !.pc = "returned",
                    !.ret = [status |-> "UnrecoverableRollbackError",
                             ns |-> Head(missing),
                             ident |-> getCollectionIdent(catalog, Head(missing))]]
           ELSE rc' = [rc EXCEPT !.pc = "scan"]
    /\ UNCHANGED <<engine, catalog, fatal>>
    /\ UNCHANGED dirVars

\* Lines 215-232: the indexes whose ident is not among the gathered idents.
reconcile_scanIndexes ==
    /\ Running
    /\ life.phase = "constructed"
    /\ UNCHANGED life
    /\ rc.pc = "scan"
    /\ rc' = [rc EXCEPT
            !.pc = "returned",
            !.ret = [status |-> "OK",
                     value |-> Rebuild(getAllCollections(catalog), catalog,
                                       rc.engineIdents)]]
    /\ UNCHANGED <<engine, catalog, fatal>>
    /\ UNCHANGED dirVars

\* The engine and the catalog reconcile may find: the engine always holds
\* _mdb_catalog (the constructor opens or creates it, lines 82-107).
InitReconcile ==
    /\ _dbs = <<>>
    /\ heap = <<>>
    /\ _dbsLock = NoThread
    /\ _initialDataTimestamp = kAllowUnstableCheckpointsSentinel
    /\ pc = [t \in Threads |-> "idle"]
    /\ frame = [t \in Threads |-> BlankFrame]
    /\ ru = [t \in Threads |-> BlankRecoveryUnit]
    /\ fatal = "running"
    /\ hist = [t \in Threads |-> <<>>]
    /\ \E E \in SUBSET (Range(Idents) \ {catalogInfo}) : engine = E \cup {catalogInfo}
    /\ catalog \in Catalogs
    /\ rc = BlankReconcile
    /\ life = ConstructedLife

NextReconcile ==
    \/ reconcileCatalogAndIdents
    \/ reconcile_dropIdent
    \/ reconcile_checkCollections
    \/ reconcile_scanIndexes

SpecReconcile == InitReconcile /\ [][NextReconcile]_vars

(***************************************************************************)
(* The constructor, lines 72-137.                                          *)
(***************************************************************************)
\* KVPrefix of the table behind an ident.
KVPrefixOf(ident) ==
    CASE ident = "collection-2" -> 1
      [] ident = "collection-6" -> 0
      [] ident = "index-3" -> 2
      [] ident = "index-4" -> 0
      [] OTHER -> kNotPrefixed

\* std::max, line 132.
Max(a, b) == IF a < b THEN b ELSE a

\* BSONCollectionCatalogEntry::MetaData::getMaxPrefix: the largest prefix of
\* the collection and its indexes.
RECURSIVE MaxIndexPrefix(_)
MaxIndexPrefix(indexes) ==
    IF indexes = <<>> THEN kNotPrefixed
    ELSE Max(KVPrefixOf(Head(indexes).ident), MaxIndexPrefix(Tail(indexes)))

getMaxPrefix(metaData) ==
    Max(KVPrefixOf(metaData.ident), MaxIndexPrefix(metaData.indexes))

\* Lines 118-133: maxSeenPrefix after the loop over the collections.
RECURSIVE MaxSeenPrefix_last(_, _, _)
MaxSeenPrefix_last(collections, cat, maxSeenPrefix) ==
    IF collections = <<>> THEN maxSeenPrefix
    ELSE MaxSeenPrefix_last(Tail(collections), cat,
                            getMaxPrefix(getMetaData(cat, Head(collections))))

RECURSIVE MaxSeenPrefix(_, _, _)
MaxSeenPrefix(collections, cat, maxSeenPrefix) ==
    IF collections = <<>> THEN maxSeenPrefix
    ELSE MaxSeenPrefix(Tail(collections), cat,
                       Max(maxSeenPrefix, getMaxPrefix(getMetaData(cat, Head(collections)))))

\* Lines 88-92: repair the catalog ident.
RepairsCatalog_whenRepairing(forRepair, catalogExists) == forRepair

RepairsCatalog(forRepair, catalogExists) == forRepair /\ catalogExists

\* Lines 72-107: the directoryPerDB check, then open, repair or create
\* _mdb_catalog.  A failed create is fatal (fassert 28562 or 28520).
KVStorageEngine_catalog ==
    /\ Running
    /\ life.phase = "new"
    /\ \E directoryPerDB \in BOOLEAN, supportsDirectoryPerDB \in BOOLEAN :
        IF directoryPerDB /\ ~supportsDirectoryPerDB
        THEN /\ life' = [life EXCEPT !.phase = "threw",
                                     !.ret = [op |-> "construct", code |-> "28601"]]
             /\ UNCHANGED <<engine, fatal>>
        ELSE LET catalogExists == catalogInfo \in engine
                 repaired == RepairsCatalog(life.forRepair, catalogExists)
             IN  IF catalogExists
                 THEN /\ life' = [life EXCEPT !.phase = "catalog",
                                              !.found = engine,
                                              !.catalogExists = TRUE,
                                              !.repaired = repaired]
                      /\ UNCHANGED <<engine, fatal>>
                 ELSE \E status \in {StatusOK, Status("BadValue", "config"),
                                     Status("InternalError", "engine")} :
                        IF isOK(status)
                        THEN /\ engine' = engine \cup {catalogInfo}
                             /\ life' = [life EXCEPT !.phase = "catalog",
                                                     !.found = engine,
                                                     !.repaired = repaired,
                                                     !.created = "committed"]
                             /\ UNCHANGED fatal
                        ELSE /\ fatal' = IF status.code = "BadValue"
                                         THEN "fassert_28562" ELSE "fassert_28520"
                             /\ life' = [life EXCEPT !.found = engine,
                                                     !.repaired = repaired,
                                                     !.created = "failed"]
                             /\ UNCHANGED engine
    /\ UNCHANGED <<catalog, rc>>
    /\ UNCHANGED dirVars

\* Lines 109-136: load the catalog, make a directory entry per database of
\* its collections, initialise each collection in its entry, and publish
\* the largest prefix seen.
KVStorageEngine_load ==
    /\ Running
    /\ life.phase = "catalog"
    /\ LET collections == getAllCollections(catalog)
       IN  /\ _dbs' = ConstructedDbs(Range(collections))
           /\ heap' = ConstructedHeap(Range(collections))
           /\ life' = [life EXCEPT
                    !.phase = "constructed",
                    !._catalogRecordStore = TRUE,
                    !._catalog = TRUE,
                    !.largestPrefix = MaxSeenPrefix(collections, catalog, kNotPrefixed),
                    !.ret = [op |-> "construct", code |-> "OK"]]
    /\ UNCHANGED <<engine, catalog, rc, fatal>>
    /\ UNCHANGED <<_dbsLock, _initialDataTimestamp, pc, frame, ru, hist>>

(***************************************************************************)
(* cleanShutdown, lines 235-246, and newRecoveryUnit, lines 252-258.       *)
(***************************************************************************)
\* Line 253: the test newRecoveryUnit makes.
IsShutdown(l) == l._engine = nullptr

cleanShutdown ==
    /\ Running
    /\ life.phase = "constructed"
    /\ \A t \in Threads : pc[t] = "idle"
    /\ rc.pc \in {"idle", "returned"}
    /\ heap' = [h \in DOMAIN heap |->
                    IF h \in Range(_dbs) THEN [heap[h] EXCEPT !.alive = FALSE] ELSE heap[h]]
    /\ _dbs' = <<>>
    /\ life' = [life EXCEPT !.phase = "shutdown",
                            !._catalog = FALSE,
                            !._catalogRecordStore = FALSE,
                            !.engineShutdown = TRUE,
                            !.ret = [op |-> "cleanShutdown"]]
    /\ UNCHANGED <<engine, catalog, rc, fatal>>
    /\ UNCHANGED <<_dbsLock, _initialDataTimestamp, pc, frame, ru, hist>>

newRecoveryUnit ==
    /\ Running
    /\ life.phase \in {"constructed", "shutdown"}
    /\ life' = [life EXCEPT !.ret =
                    IF IsShutdown(life)
                    THEN [op |-> "newRecoveryUnit", forwarded |-> FALSE, result |-> "NULL"]
                    ELSE [op |-> "newRecoveryUnit", forwarded |-> TRUE,
                          result |-> "RecoveryUnit"]]
    /\ UNCHANGED <<engine, catalog, rc, fatal>>
    /\ UNCHANGED dirVars

(***************************************************************************)
(* beginBackup and endBackup, lines 458-473.                               *)
(***************************************************************************)
\* Lines 463-464: the flag after the engine's beginBackup returned status.
InBackupModeAfter_set(status) == TRUE

InBackupModeAfter(status) == isOK(status)

beginBackup ==
    /\ Running
    /\ life.phase = "constructed"
    /\ IF life._inBackupMode
       THEN life' = [life EXCEPT !.ret =
                        [op |-> "beginBackup", forwarded |-> FALSE,
                         status |-> Status("BadValue", "Already in Backup Mode")]]
       ELSE \E status \in {StatusOK, Status("InternalError", "engine")} :
                life' = [life EXCEPT
                    !._inBackupMode = InBackupModeAfter(status),
                    !.engineBackup = IF isOK(status) THEN TRUE ELSE @,
                    !.ret = [op |-> "beginBackup", forwarded |-> TRUE,
                             status |-> status]]
    /\ UNCHANGED <<engine, catalog, rc, fatal>>
    /\ UNCHANGED dirVars

endBackup ==
    /\ Running
    /\ life.phase = "constructed"
    /\ IF ~life._inBackupMode
       THEN /\ fatal' = "invariant_470"
            /\ UNCHANGED life
       ELSE /\ life' = [life EXCEPT !._inBackupMode = FALSE,
                                    !.engineBackup = FALSE,
                                    !.ret = [op |-> "endBackup", forwarded |-> TRUE]]
            /\ UNCHANGED fatal
    /\ UNCHANGED <<engine, catalog, rc>>
    /\ UNCHANGED dirVars

(***************************************************************************)
(* SpecLifecycle: an engine and a catalog as a start finds them, the       *)
(* constructor, then listDatabases, reconcileCatalogAndIdents, backups,    *)
(* recovery units and the shutdown.                                        *)
(***************************************************************************)
\* The idents besides _mdb_catalog a start may find in the engine.
StartupIdents == {"collection-1", "index-7", "sizeStorer"}

InitLifecycle ==
    /\ _dbs = <<>>
    /\ heap = <<>>
    /\ _dbsLock = NoThread
    /\ _initialDataTimestamp = kAllowUnstableCheckpointsSentinel
    /\ pc = [t \in Threads |-> "idle"]
    /\ frame = [t \in Threads |-> BlankFrame]
    /\ ru = [t \in Threads |-> BlankRecoveryUnit]
    /\ fatal = "running"
    /\ hist = [t \in Threads |-> <<>>]
    /\ \E E \in SUBSET StartupIdents :
        \/ engine = E /\ catalog = <<>>
        \/ engine = E \cup {catalogInfo} /\ catalog \in Catalogs
    /\ rc = BlankReconcile
    /\ \E forRepair \in BOOLEAN : life = NewLife(forRepair)

NextLifecycle ==
    \/ KVStorageEngine_catalog
    \/ KVStorageEngine_load
    \/ listDatabases("t1")
    \/ listDatabases_isEmpty("t1")
    \/ reconcileCatalogAndIdents
    \/ reconcile_dropIdent
    \/ reconcile_checkCollections
    \/ reconcile_scanIndexes
    \/ newRecoveryUnit
    \/ beginBackup
    \/ endBackup
    \/ cleanShutdown

SpecLifecycle == InitLifecycle /\ [][NextLifecycle]_vars

(***************************************************************************)
(* What a running dropDatabase has done so far, read off its record.       *)
(***************************************************************************)
DropEvents(t, phase) ==
    {i \in 1..Len(hist[t]) :
        hist[t][i].ev = "dropCollection" /\ hist[t][i].phase = phase}

CommitEvents(t, phase) ==
    {i \in 1..Len(hist[t]) : hist[t][i].ev = "commit" /\ hist[t][i].phase = phase}

EntryTs(t) == hist[t][1].ts

\* The cluster time Phase B read, once it has.
ChosenTs(t) ==
    hist[t][CHOOSE i \in 1..Len(hist[t]) : hist[t][i].ev = "begin"
                                            /\ hist[t][i].phase = "B"].chosen

Returned(t) == pc[t] = "dd_return"

(***************************************************************************)
(* C1: when dropDatabase returns, whatever it found and whatever its       *)
(* dropCollection calls returned, the recovery unit's commit timestamp is  *)
(* the one dropDatabase was entered with.                                  *)
(***************************************************************************)
C1_CommitTimestampRestored ==
    \A t \in Threads : Returned(t) => ru[t].commitTimestamp = EntryTs(t)

\* A call entered with a commit timestamp returned after a failed dropCollection
\* in each phase, with the cluster time available.
C1_Witness ==
    \E t \in Threads :
        /\ Returned(t)
        /\ EntryTs(t) # Null
        /\ \E i \in DropEvents(t, "A") : ~isOK(hist[t][i].result)
        /\ \E i \in DropEvents(t, "B") : ~isOK(hist[t][i].result)
        /\ ChosenTs(t) # Null

(***************************************************************************)
(* C2: an abort of the write unit of work around dropDatabase(d) puts the  *)
(* removed entry back in the directory under d, over whatever entry        *)
(* another thread's getDatabaseCatalogEntry(d) created in between; from    *)
(* then on only a later removal or rollback changes d's slot, and          *)
(* getDatabaseCatalogEntry(d) returns the entry the slot holds.            *)
(***************************************************************************)
C2_RollbackStep(t) ==
    abortUnitOfWork(t) =>
        \A i \in 1..Len(ru[t].changes) :
            /\ ru[t].changes[i].db \in DOMAIN _dbs'
            /\ _dbs'[ru[t].changes[i].db] = ru[t].changes[i].entry

C2_SlotKept(d) ==
    (d \in DOMAIN _dbs /\ _dbs[d] # nullptr
        /\ (d \notin DOMAIN _dbs' \/ _dbs'[d] # _dbs[d]))
    => \E t \in Threads :
        \/ dropCollectionsWithTimestamp_remove(t)
        \/ abortUnitOfWork(t)

C2_GetStep(t, d) ==
    (getDatabaseCatalogEntry(t, d) /\ d \in DOMAIN _dbs)
    => (pc'[t] = "idle" /\ frame'[t].result = _dbs[d] /\ _dbs' = _dbs)

C2_RollbackReinstatesEntry ==
    [][/\ \A t \in Threads : C2_RollbackStep(t)
       /\ \A d \in DbNames : C2_SlotKept(d)
       /\ \A t \in Threads, d \in DbNames : C2_GetStep(t, d)]_vars

\* The entries no directory slot and no pending RemoveDBChange holds.
Unowned(h) ==
    /\ \A d \in DOMAIN _dbs : _dbs[d] # h
    /\ \A t \in Threads : \A i \in 1..Len(ru[t].changes) : ru[t].changes[i].entry # h

\* After a rollback put entry h1 back over an entry h2 that another thread had
\* created for the name in between, getDatabaseCatalogEntry returned h1.
C2_Witness ==
    \E t \in Threads, h1, h2 \in DOMAIN heap :
        /\ h1 < h2
        /\ heap[h1].name = "d" /\ heap[h2].name = "d"
        /\ heap[h1].alive /\ heap[h2].alive
        /\ "d" \in DOMAIN _dbs /\ _dbs["d"] = h1
        /\ Unowned(h2)
        /\ pc[t] = "idle" /\ frame[t].db = "d" /\ frame[t].result = h1

(***************************************************************************)
(* C7: a dropDatabase call on a known database calls dropCollection once   *)
(* on every namespace the entry reported, commits the unit of work of each *)
(* phase, and returns the first dropCollection error in execution order,   *)
(* or OK.  Stated of every call that has ended, by returning or in the     *)
(* assertion of line 442, in which no namespace appeared in the entry that *)
(* the entry had not reported.                                             *)
(***************************************************************************)
Listed(t) == Range(hist[t][2].toDrop)

CalledOnceOnEach(t) ==
    /\ \A ns \in Listed(t) :
        Cardinality({i \in DropEvents(t, "A") \cup DropEvents(t, "B") :
                        hist[t][i].ns = ns}) = 1
    /\ \A i \in DropEvents(t, "A") \cup DropEvents(t, "B") : hist[t][i].ns \in Listed(t)

FirstError(t) ==
    LET failed == {i \in DropEvents(t, "A") \cup DropEvents(t, "B") :
                        ~isOK(hist[t][i].result)}
    IN  IF failed = {} THEN StatusOK
        ELSE hist[t][CHOOSE i \in failed : \A j \in failed : i <= j].result

PhasesInOrder(t) ==
    \A i \in DropEvents(t, "A"), j \in DropEvents(t, "B") : i < j

C7_Ended(t) ==
    /\ pc[t] \in {"dd_return", "dd_fatal"}
    /\ Len(hist[t]) > 1
    /\ fatal \in {"running", "invariant_442"}
    /\ heap[frame[t].entry].colls \subseteq Listed(t)

C7_DropsAllAndReturnsFirstError ==
    \A t \in Threads :
        C7_Ended(t) =>
            /\ Returned(t)
            /\ CalledOnceOnEach(t)
            /\ PhasesInOrder(t)
            /\ CommitEvents(t, "A") # {} /\ CommitEvents(t, "B") # {}
            /\ frame[t].ret = FirstError(t)

(***************************************************************************)
(* C8: every dropCollection call of Phase A and the commit of Phase A's    *)
(* unit of work run with a null commit timestamp, whatever commit          *)
(* timestamp dropDatabase was entered with.                                *)
(***************************************************************************)
C8_PhaseAUntimestamped ==
    \A t \in Threads :
        /\ pc[t] = "dd_A_loop" => ru[t].commitTimestamp = Null
        /\ \A i \in DropEvents(t, "A") \cup CommitEvents(t, "A") : hist[t][i].ts = Null

\* Phase A of a call entered with a commit timestamp has dropped and committed.
C8_Witness ==
    \E t \in Threads :
        /\ Len(hist[t]) > 1
        /\ EntryTs(t) # Null
        /\ DropEvents(t, "A") # {}
        /\ CommitEvents(t, "A") # {}

(***************************************************************************)
(* C9: every dropCollection call of Phase B runs with the commit timestamp *)
(* dropDatabase was entered with when that is not null, with the cluster   *)
(* time otherwise (null only when both are null); on return the commit     *)
(* timestamp is cleared only if this call set it.                          *)
(***************************************************************************)
C9_Expected(t) == IF EntryTs(t) # Null THEN EntryTs(t) ELSE ChosenTs(t)

C9_PhaseBTimestamp ==
    \A t \in Threads :
        /\ pc[t] = "dd_B_loop" => ru[t].commitTimestamp = C9_Expected(t)
        /\ \A i \in DropEvents(t, "B") : hist[t][i].ts = C9_Expected(t)
        /\ (Returned(t) /\ CommitEvents(t, "B") # {}) =>
                ru[t].commitTimestamp =
                    IF EntryTs(t) = Null /\ ChosenTs(t) # Null THEN Null
                    ELSE C9_Expected(t)

\* A call entered with a commit timestamp, while the cluster time was not null,
\* has made a Phase B dropCollection call and returned.
C9_Witness ==
    \E t \in Threads :
        /\ Returned(t)
        /\ EntryTs(t) # Null
        /\ DropEvents(t, "B") # {}
        /\ ChosenTs(t) # Null

(***************************************************************************)
(* C10: dropDatabase on a name without a directory entry returns           *)
(* NamespaceNotFound and changes nothing: the directory and the entries    *)
(* stay as they are, no unit of work is opened, no dropCollection is       *)
(* called, no change is registered, the commit timestamp stays.            *)
(***************************************************************************)
C10_Step(t, db, ts, wrapped) ==
    (dropDatabase(t, db, ts, wrapped) /\ db \notin DOMAIN _dbs) =>
        /\ pc'[t] = "dd_return"
        /\ frame'[t].ret.code = "NamespaceNotFound"
        /\ _dbs' = _dbs
        /\ heap' = heap
        /\ ru'[t].changes = <<>>
        /\ ru'[t].depth = (IF wrapped THEN 1 ELSE 0)
        /\ ru'[t].commitTimestamp = ts
        /\ Len(hist'[t]) = 1

C10_UnknownDatabase ==
    [][\A t \in Threads, db \in DbNames, ts \in EntryTimestamps, wrapped \in BOOLEAN :
            C10_Step(t, db, ts, wrapped)]_vars

\* dropDatabase returned NamespaceNotFound for a name while the directory held
\* another name's entry and a commit timestamp was set.
C10_Witness ==
    \E t \in Threads :
        /\ Returned(t)
        /\ Len(hist[t]) = 1
        /\ frame[t].ret = Status("NamespaceNotFound", "db not found to drop")
        /\ frame[t].db \notin DOMAIN _dbs
        /\ DOMAIN _dbs # {}
        /\ EntryTs(t) # Null

(***************************************************************************)
(* C11: once dropDatabase(d) on a known database has returned, with OK or  *)
(* with a collected dropCollection error, and its unit of work commits,    *)
(* the directory holds no entry for d and the removed entry is destroyed,  *)
(* at that commit and not before, having been alive until then; the name   *)
(* comes back only through getDatabaseCatalogEntry, and until then a       *)
(* dropDatabase(d) returns NamespaceNotFound.                              *)
(***************************************************************************)
\* The step of t is a commit that runs the registered changes.
CommitsChanges(t) ==
    \/ commitUnitOfWork(t)
    \/ ru[t].depth = 1 /\ dropCollectionsWithTimestamp_commit(t)
    \/ ru[t].depth = 1 /\ \E chosenCommitTs \in ClockTimestamps :
                              dropCollectionsNoTimestamp_commit(t, chosenCommitTs)

C11_CommitStep(t) ==
    CommitsChanges(t) =>
        \A i \in 1..Len(ru[t].changes) :
            /\ heap[ru[t].changes[i].entry].alive
            /\ ~heap'[ru[t].changes[i].entry].alive
            /\ ru[t].changes[i].db \notin DOMAIN _dbs'

C11_DestroyedAtCommit(h) ==
    (heap[h].alive /\ ~heap'[h].alive) =>
        \E t \in Threads :
            /\ CommitsChanges(t)
            /\ \E i \in 1..Len(ru[t].changes) : ru[t].changes[i].entry = h

C11_AbsentStays(t, d) ==
    /\ (d \notin DOMAIN _dbs /\ d \in DOMAIN _dbs') =>
            \E u \in Threads : getDatabaseCatalogEntry(u, d) \/ abortUnitOfWork(u)
    /\ (d \notin DOMAIN _dbs
            /\ \E ts \in EntryTimestamps, wrapped \in BOOLEAN :
                    dropDatabase(t, d, ts, wrapped))
        => /\ pc'[t] = "dd_return"
           /\ frame'[t].ret.code = "NamespaceNotFound"

C11_DroppedDatabaseGone ==
    [][/\ \A t \in Threads : C11_CommitStep(t)
       /\ \A h \in DOMAIN heap : C11_DestroyedAtCommit(h)
       /\ \A t \in Threads, d \in DbNames : C11_AbsentStays(t, d)]_vars

\* A dropDatabase that collected a dropCollection error has removed its entry,
\* committed and returned the error: the entry is destroyed and the name is
\* not in the directory.
C11_Witness ==
    \E t \in Threads :
        /\ Returned(t)
        /\ ru[t].depth = 0
        /\ CommitEvents(t, "B") # {}
        /\ ~isOK(frame[t].ret)
        /\ ~heap[frame[t].entry].alive
        /\ frame[t].db \notin DOMAIN _dbs

(***************************************************************************)
(* reconcileCatalogAndIdents: what it leaves in the engine and returns.    *)
(***************************************************************************)
ReconcileReturned == rc.pc = "returned"

ReconcileSucceeded == ReconcileReturned /\ rc.ret.status = "OK"

\* C3: whenever reconcileCatalogAndIdents returns success, every namespace of
\* the catalog has its collection ident in the engine's ident set as it stands
\* after the reconcile's own orphan drops.
C3_CollectionIdentsInEngine ==
    ReconcileSucceeded =>
        \A ns \in DOMAIN catalog : getCollectionIdent(catalog, ns) \in engine

\* A success over both namespaces after the reconcile dropped an orphan.
C3_Witness ==
    /\ ReconcileSucceeded
    /\ DOMAIN catalog = {"db.c", "db.e"}
    /\ rc.dropped # {}
    /\ engine # rc.entered

\* The idents that were in the engine when reconcile began, that the catalog
\* does not reference, and that are user data.
Orphans ==
    {ident \in rc.entered :
        ident \notin catalog_getAllIdents(catalog) /\ isUserDataIdent(ident)}

\* C4: the idents reconcileCatalogAndIdents drops from the engine are exactly
\* those that were in the engine, are not referenced by the catalog and are
\* user data: it never drops another ident, by its return it has dropped each
\* of them, and _mdb_catalog, every catalog-referenced ident and every
\* non-user-data ident stay in the engine.
C4_DropsExactlyOrphans ==
    rc.pc # "idle" =>
        /\ rc.dropped \subseteq Orphans
        /\ engine = rc.entered \ rc.dropped
        /\ ReconcileReturned =>
            /\ rc.dropped = Orphans
            /\ catalogInfo \in engine
            /\ \A ident \in rc.entered :
                   \/ ident \in catalog_getAllIdents(catalog)
                   \/ ~isUserDataIdent(ident)
                   => ident \in engine

\* A return after dropping two orphans from an engine that also held a
\* catalog-referenced ident and a non-user-data ident.
C4_Witness ==
    /\ ReconcileReturned
    /\ rc.dropped = {"collection-6", "index-7"}
    /\ "db.c" \in DOMAIN catalog
    /\ {catalogInfo, "collection-1", "sizeStorer"} \subseteq engine

\* The (namespace, index name) pairs of the catalog whose ident the engine lacks.
MissingIndexPairs ==
    UNION {{<<ns, catalog[ns].indexes[i].name>> :
                i \in {j \in DOMAIN catalog[ns].indexes :
                            catalog[ns].indexes[j].ident \notin engine}} :
           ns \in DOMAIN catalog}

\* C5: when reconcileCatalogAndIdents returns success, a pair (NS, indexName)
\* is in the returned rebuild list if and only if the catalog records that
\* index for NS and the index's ident is not in the engine's ident set, and
\* no pair is listed twice.
C5_RebuildList ==
    ReconcileSucceeded =>
        /\ Range(rc.ret.value) = MissingIndexPairs
        /\ \A k \in DOMAIN rc.ret.value : \A l \in DOMAIN rc.ret.value :
               rc.ret.value[k] = rc.ret.value[l] => k = l

\* A success that lists the same-named index of two namespaces and leaves
\* out an index whose ident the engine holds.
C5_Witness ==
    /\ ReconcileSucceeded
    /\ rc.ret.value = << <<"db.c", "i">>, <<"db.e", "i">> >>
    /\ Len(catalog["db.c"].indexes) = 2
    /\ "index-4" \in engine

\* The namespaces of the catalog whose collection ident the engine lacks.
MissingIdentNamespaces ==
    {ns \in DOMAIN catalog : getCollectionIdent(catalog, ns) \notin engine}

C12_ShutdownReleases ==
    life.phase = "shutdown" =>
        /\ _dbs = <<>>
        /\ \A h \in DOMAIN heap : ~heap[h].alive
        /\ ~life._catalog
        /\ ~life._catalogRecordStore
        /\ life.engineShutdown
        /\ ~life.engineDestroyed

C12_NoRecoveryUnitAfterShutdown ==
    /\ C12_ShutdownReleases
    /\ (life.phase = "shutdown" /\ life.ret.op = "newRecoveryUnit") =>
            /\ life.ret.result = "NULL"
            /\ ~life.ret.forwarded

(***************************************************************************)
(* C13: in any sequence of beginBackup and endBackup calls, a beginBackup  *)
(* while _inBackupMode is set returns BadValue without calling the engine  *)
(* and leaves the flag set; a beginBackup while it is clear calls the      *)
(* engine, returns its status and sets the flag exactly when that status   *)
(* is OK; endBackup clears a set flag and is an invariant failure on a     *)
(* clear one.  So the engine is never asked to begin a backup while one it *)
(* began is open.                                                          *)
(***************************************************************************)
C13_BeginStep ==
    beginBackup =>
        IF life._inBackupMode
        THEN /\ life'.ret.status.code = "BadValue"
             /\ ~life'.ret.forwarded
             /\ life'._inBackupMode
             /\ life'.engineBackup = life.engineBackup
        ELSE /\ life'.ret.forwarded
             /\ ~life.engineBackup
             /\ life'._inBackupMode = isOK(life'.ret.status)
             /\ life'.engineBackup = isOK(life'.ret.status)

C13_EndStep ==
    endBackup =>
        IF life._inBackupMode
        THEN ~life'._inBackupMode /\ ~life'.engineBackup /\ fatal' = fatal
        ELSE fatal' = "invariant_470"

C13_BackupMode ==
    [][C13_BeginStep /\ C13_EndStep]_vars

\* beginBackup was refused with BadValue while the backup the engine began
\* is open.
C13_Witness ==
    /\ life._inBackupMode
    /\ life.engineBackup
    /\ life.ret.op = "beginBackup"
    /\ ~life.ret.forwarded
    /\ life.ret.status = Status("BadValue", "Already in Backup Mode")

(***************************************************************************)
(* C14: listDatabases returns exactly the names that have a directory      *)
(* entry which reports non-empty, each once: a name whose entry was        *)
(* created on demand and is empty, a name without an entry and a name      *)
(* whose entry dropDatabase removed are not in it.                         *)
(***************************************************************************)
NonEmptyDatabases ==
    {d \in DOMAIN _dbs : _dbs[d] # nullptr /\ ~isEmpty(heap[_dbs[d]])}

C14_ListDatabases ==
    \A t \in Threads :
        (pc[t] = "idle" /\ frame[t].listed) =>
            /\ Range(frame[t].out) = NonEmptyDatabases
            /\ \A i \in DOMAIN frame[t].out : \A j \in DOMAIN frame[t].out :
                   frame[t].out[i] = frame[t].out[j] => i = j

\* listDatabases returned one name while the directory also held an empty
\* entry created on demand for another name.
C14_Witness ==
    \E t \in Threads :
        /\ pc[t] = "idle"
        /\ frame[t].listed
        /\ frame[t].out = <<"d">>
        /\ "local" \in DOMAIN _dbs
        /\ isEmpty(heap[_dbs["local"]])

(***************************************************************************)
(* C15: after construction the largest prefix published is the maximum of  *)
(* getMaxPrefix over the catalog's collections, kNotPrefixed when it has   *)
(* none, and the directory holds exactly one entry for each database that  *)
(* has a namespace in the catalog.                                         *)
(***************************************************************************)
IsConstructed == life.phase = "constructed"

C15_Construction ==
    IsConstructed =>
        /\ IF DOMAIN catalog = {}
           THEN life.largestPrefix = kNotPrefixed
           ELSE /\ \E ns \in DOMAIN catalog : getMaxPrefix(catalog[ns]) = life.largestPrefix
                /\ \A ns \in DOMAIN catalog : getMaxPrefix(catalog[ns]) <= life.largestPrefix
        /\ DOMAIN _dbs = {NamespaceString(ns).db : ns \in DOMAIN catalog}
        /\ Len(heap) = Cardinality(DOMAIN _dbs)
        /\ \A d \in DOMAIN _dbs :
            /\ _dbs[d] \in DOMAIN heap
            /\ heap[_dbs[d]].name = d
            /\ heap[_dbs[d]].alive
        /\ \A d1 \in DOMAIN _dbs : \A d2 \in DOMAIN _dbs : _dbs[d1] = _dbs[d2] => d1 = d2

\* A construction over three namespaces of two databases whose largest
\* prefix belongs to the first collection listed.
C15_Witness ==
    /\ IsConstructed
    /\ DOMAIN catalog = {"db.c", "db.e", "local.x"}
    /\ DOMAIN _dbs = {"db", "local"}
    /\ getMaxPrefix(catalog["db.c"]) = life.largestPrefix
    /\ getMaxPrefix(catalog["local.x"]) < life.largestPrefix

(***************************************************************************)
(* C16: the constructor creates _mdb_catalog, in a write unit of work it   *)
(* commits, exactly when the engine did not have it, and has the engine    *)
(* repair it exactly when the engine had it and forRepair is set, never    *)
(* both; after a construction the engine has _mdb_catalog; and on an       *)
(* engine that had no ident, listDatabases returns nothing and             *)
(* reconcileCatalogAndIdents returns an empty list and drops nothing.      *)
(***************************************************************************)
PastCatalogStep == life.phase \in {"catalog", "constructed", "shutdown"}

C16_CatalogIdent ==
    /\ PastCatalogStep =>
        /\ life.created = "committed" <=> catalogInfo \notin life.found
        /\ life.repaired <=> (catalogInfo \in life.found /\ life.forRepair)
        /\ ~(life.created = "committed" /\ life.repaired)
        /\ catalogInfo \in engine
    /\ life.phase \in {"new", "threw"} => (life.created # "committed" /\ ~life.repaired)
    /\ (IsConstructed /\ life.found = {}) =>
        /\ rc.dropped = {}
        /\ ReconcileReturned => rc.ret = [status |-> "OK", value |-> <<>>]
        /\ \A t \in Threads : (pc[t] = "idle" /\ frame[t].listed) => frame[t].out = <<>>

\* Constructed for repair on an engine without idents: the catalog ident was
\* created and not repaired, and listDatabases and reconcile have returned.
C16_Witness ==
    /\ IsConstructed
    /\ life.found = {}
    /\ life.forRepair
    /\ life.created = "committed"
    /\ engine = {catalogInfo}
    /\ ReconcileReturned
    /\ pc["t1"] = "idle" /\ frame["t1"].listed

(***************************************************************************)
(* C17: whenever dropDatabase comes to the directory removal at the end of *)
(* Phase B, the entry reports no namespace, so the assertion of line 442   *)
(* never fails, whatever the dropCollection calls returned and whatever    *)
(* collections other threads created through the entry in the meantime.    *)
(***************************************************************************)
C17_EmptinessAssertion ==
    /\ fatal # "invariant_442"
    /\ \A t \in Threads :
        pc[t] = "dd_B_remove" => isEmpty(heap[frame[t].entry])

(***************************************************************************)
(* C18: no thread holds the directory mutex while the entry factory or a   *)
(* method of an entry is executing for it: the mutex is held only around   *)
(* the lookup and insert of getDatabaseCatalogEntry, the walk of           *)
(* listDatabases and the erase with its registerChange in dropDatabase.    *)
(***************************************************************************)
\* The next step of t runs the factory or a method of an entry.
InCallback(t) ==
    \/ pc[t] = "get_factory"
    \/ pc[t] = "ld_loop" /\ frame[t].iter # <<>>
    \/ UsesEntry(t) /\ pc[t] # "dd_B_remove"

C18_MutexNotHeldInCallbacks ==
    \A t \in Threads : InCallback(t) => _dbsLock # t

(***************************************************************************)
(* C19: the Phase A assertion is gated by the value last passed to         *)
(* setInitialDataTimestamp.  While it is kAllowUnstableCheckpointsSentinel, *)
(* Phase A calls dropCollection on any namespace it is given; while it is  *)
(* another value, a namespace that is replicated, does not start with      *)
(* tmp.mr and is not system.indexes fails the invariant before             *)
(* dropCollection is called on it, and any other namespace is dropped as   *)
(* usual.                                                                  *)
(***************************************************************************)
C19_Breach(ns) ==
    /\ NamespaceString(ns).db # "local"
    /\ NamespaceString(ns).coll # <<"system", "profile">>
    /\ ~(Len(NamespaceString(ns).coll) >= 2
            /\ NamespaceString(ns).coll[1] = "tmp" /\ NamespaceString(ns).coll[2] = "mr")
    /\ NamespaceString(ns).coll # <<"system", "indexes">>

C19_DropStep(t) ==
    dropCollectionsNoTimestamp_drop(t) =>
        LET coll == frame[t].toDrop[frame[t].it]
        IN  IF _initialDataTimestamp # kAllowUnstableCheckpointsSentinel /\ C19_Breach(coll)
            THEN /\ fatal' = "invariant_378"
                 /\ hist'[t] = hist[t]
                 /\ heap' = heap
            ELSE /\ fatal' = fatal
                 /\ Len(hist'[t]) = Len(hist[t]) + 1
                 /\ hist'[t][Len(hist'[t])].ev = "dropCollection"
                 /\ hist'[t][Len(hist'[t])].phase = "A"
                 /\ hist'[t][Len(hist'[t])].ns = coll

C19_SetStep(ts) ==
    setInitialDataTimestamp(ts) => _initialDataTimestamp' = ts

EventsOf(t, ev) == {i \in 1..Len(hist[t]) : hist[t][i].ev = ev}

BeginEvents(t, phase) == {i \in EventsOf(t, "begin") : hist[t][i].phase = phase}

DroppedIn(t, phase) == {hist[t][i].ns : i \in DropEvents(t, phase)}

C20_PhaseOrder ==
    \A t \in Threads :
        Len(hist[t]) > 1 =>
            /\ \A i \in DropEvents(t, "A") :
                /\ ~isDropPendingNamespace(hist[t][i].ns)
                /\ \A j \in CommitEvents(t, "A") : i < j
            /\ \A i \in DropEvents(t, "A") \cup CommitEvents(t, "A") :
                \A j \in BeginEvents(t, "B") \cup DropEvents(t, "B") : i < j
            /\ \A j \in DropEvents(t, "B") :
                /\ isDropPendingNamespace(hist[t][j].ns)
                /\ CommitEvents(t, "A") # {}
                /\ BeginEvents(t, "B") # {}
            /\ CommitEvents(t, "A") # {} =>
                DroppedIn(t, "A") = {ns \in Listed(t) : ~isDropPendingNamespace(ns)}
            /\ \A r \in EventsOf(t, "remove") :
                /\ \A i \in DropEvents(t, "A") \cup DropEvents(t, "B") : i < r
                /\ DroppedIn(t, "B") = {ns \in Listed(t) : isDropPendingNamespace(ns)}
                /\ DroppedIn(t, "A") \cup DroppedIn(t, "B") = Listed(t)

\* A call that dropped two namespaces in Phase A and one in Phase B has
\* removed the directory entry.
C20_Witness ==
    \E t \in Threads :
        /\ Len(hist[t]) > 1
        /\ EventsOf(t, "remove") # {}
        /\ DroppedIn(t, "A") = {"d.a", "d.tmp.mr.x"}
        /\ DroppedIn(t, "B") = {"d.system.drop.1.a"}

(***************************************************************************)
(* C21: getDatabaseCatalogEntry(d) never returns null; as long as no       *)
(* dropDatabase(d) removes the entry, every call for d, from any thread,   *)
(* returns the same entry and the factory is called at most once for d;    *)
(* the call registers no change, so an abort takes no name out of the      *)
(* directory.                                                              *)
(***************************************************************************)
\* A call that returns, on a hit or after the factory, returns an entry.
C21_NeverNull(t) ==
    /\ (\E d \in DbNames : getDatabaseCatalogEntry(t, d)) /\ pc'[t] = "idle"
        => frame'[t].result # nullptr
    /\ getDatabaseCatalogEntry_factory(t) => frame'[t].result # nullptr

\* A call returns the entry d's slot holds.
C21_ReturnsSlot(t) ==
    /\ \A d \in DbNames :
        getDatabaseCatalogEntry(t, d) /\ pc'[t] = "idle" => frame'[t].result = _dbs[d]
    /\ getDatabaseCatalogEntry_factory(t) => frame'[t].result = _dbs'[frame[t].db]

\* The entry in d's slot stays there until a dropDatabase removes it.
C21_SlotStable(d) ==
    (d \in DOMAIN _dbs /\ _dbs[d] # nullptr
        /\ (d \notin DOMAIN _dbs' \/ _dbs'[d] # _dbs[d]))
    => \E t \in Threads : dropCollectionsWithTimestamp_remove(t)

\* The factory is called only for a name whose slot holds no entry.
C21_FactoryOnMiss(t) ==
    getDatabaseCatalogEntry_factory(t) =>
        /\ _dbs[frame[t].db] = nullptr
        /\ Len(heap') = Len(heap) + 1

\* The call registers no change, and an abort leaves every name in the directory.
C21_NotRolledBack(t) ==
    /\ (\E d \in DbNames : getDatabaseCatalogEntry(t, d)) \/ getDatabaseCatalogEntry_factory(t)
        => ru' = ru
    /\ abortUnitOfWork(t) => DOMAIN _dbs \subseteq DOMAIN _dbs'

C21_SameHandleOnce ==
    [][/\ \A t \in Threads :
            /\ C21_NeverNull(t)
            /\ C21_ReturnsSlot(t)
            /\ C21_FactoryOnMiss(t)
            /\ C21_NotRolledBack(t)
       /\ \A d \in DbNames : C21_SlotStable(d)]_vars

(***************************************************************************)
(* C22: under every interleaving of getDatabaseCatalogEntry, dropDatabase  *)
(* and commit or abort, each entry the factory produced has exactly one    *)
(* holder while it lives, a directory slot or a pending RemoveDBChange:    *)
(* no entry is destroyed twice, none is used or put back after it was      *)
(* destroyed, and a rollback never replaces another entry created for the  *)
(* name in the meantime.                                                   *)
(***************************************************************************)
\* The directory slots and the pending RemoveDBChange records that hold entry h.
Holders(h) ==
    {<<"slot", d>> : d \in {n \in DOMAIN _dbs : _dbs[n] = h}}
        \cup UNION {{<<"change", t, i>> : i \in {j \in 1..Len(ru[t].changes) :
                                                    ru[t].changes[j].entry = h}} :
                    t \in Threads}

C22_OneHolder ==
    \A h \in DOMAIN heap : heap[h].alive => Cardinality(Holders(h)) = 1

C22_DestroyedOnce ==
    /\ fatal # "double_delete"
    /\ \A h \in DOMAIN heap : ~heap[h].alive => Holders(h) = {}

C22_NoUseAfterDestroy ==
    /\ fatal # "use_after_free"
    /\ \A t \in Threads : UsesEntry(t) => heap[frame[t].entry].alive

C22_ExclusiveOwnership ==
    /\ C22_OneHolder
    /\ C22_DestroyedOnce
    /\ C22_NoUseAfterDestroy

====
